---- MODULE Spec2Model ----
(***************************************************************************)
(* The Redis-backed Cache of 0x02-redis_basic/exercise.py: the count_calls *)
(* and call_history decorators, Cache.store / get / get_str / get_int and  *)
(* replay, run by several callers that share one Redis database.  Every    *)
(* invocation of Cache.store is a thread of control of its own; get and    *)
(* replay are run by one more client, the reader.  A caller may construct *)
(* a Cache of its own, which flushes the database (SpecInit).              *)
(*                                                                         *)
(* The page cache of 0x02-redis_basic/web.py: get_page behind the          *)
(* count_requests decorator, every invocation a thread of control of its   *)
(* own, with the time that Redis counts the life of an entry in (SpecWeb). *)
(*                                                                         *)
(* Python values are records [t, s, n]: t is the Python type, s the text   *)
(* or byte content as a sequence of one-character tokens, n the number of  *)
(* an int.  A byte outside ASCII is a token such as "xC3"; the character   *)
(* e-acute is the token "eacute".  Floats, which Redis encodes by their    *)
(* repr as it does ints, are left out.                                     *)
(***************************************************************************)
EXTENDS Integers, Sequences, FiniteSets, TLC

\* ------------------------------------------------------------- bounds
\* Invocations of Cache.store in one run, each by a caller of its own, so
\* that any number of them up to all are under way at once.
MaxCalls == 2

\* Invocations of get_page in one run, each by a caller of its own.
MaxFetches == 2

\* ------------------------------------------------------ Python values
PyStr(s) == [t |-> "str", s |-> s, n |-> 0]
PyBytes(s) == [t |-> "bytes", s |-> s, n |-> 0]
PyInt(n) == [t |-> "int", s |-> <<>>, n |-> n]
None == [t |-> "NoneType", s |-> <<>>, n |-> 0]
Exc(name) == [t |-> "exception", s |-> <<name>>, n |-> 0]

\* Outcomes of a call: a returned value or a raised exception.
Return(v) == [kind |-> "return", val |-> v]
Raise(e) == [kind |-> "raise", val |-> Exc(e)]

Digits == <<"0", "1", "2", "3", "4", "5", "6", "7", "8", "9">>
IsDigit(ch) == \E d \in 1..10 : Digits[d] = ch
DigitVal(ch) == (CHOOSE d \in 1..10 : Digits[d] = ch) - 1

RECURSIVE NatText(_)
\* The decimal digits of a natural number.
NatText(n) == IF n < 10 THEN <<Digits[n + 1]>>
              ELSE NatText(n \div 10) \o <<Digits[(n % 10) + 1]>>

\* str(n) / repr(n) of an int.
IntText(n) == IF n < 0 THEN <<"-">> \o NatText(0 - n) ELSE NatText(n)

\* str.encode("utf-8"), one character at a time.
Utf8Char(ch) == IF ch = "eacute" THEN <<"xC3", "xA9">> ELSE <<ch>>

RECURSIVE Utf8Encode(_)
Utf8Encode(s) == IF s = <<>> THEN <<>>
                 ELSE Utf8Char(Head(s)) \o Utf8Encode(Tail(s))

\* Bytes that are no ASCII character.
HighBytes == {"xC3", "xA9", "xFF"}

RECURSIVE Utf8Valid(_)
\* Whether bytes.decode("utf-8") succeeds.
Utf8Valid(b) ==
    IF b = <<>> THEN TRUE
    ELSE IF Head(b) = "xC3"
         THEN Len(b) >= 2 /\ b[2] = "xA9" /\ Utf8Valid(Tail(Tail(b)))
         ELSE Head(b) \notin HighBytes /\ Utf8Valid(Tail(b))

RECURSIVE Utf8Decode(_)
\* bytes.decode("utf-8") of valid bytes.
Utf8Decode(b) ==
    IF b = <<>> THEN <<>>
    ELSE IF Head(b) = "xC3" THEN <<"eacute">> \o Utf8Decode(Tail(Tail(b)))
         ELSE <<Head(b)>> \o Utf8Decode(Tail(b))

\* redis-py's encoder for a value or list element: bytes as they are, text
\* as UTF-8, numbers as the UTF-8 of their repr.
Encode(v) ==
    CASE v.t = "bytes" -> v.s
      [] v.t = "str" -> Utf8Encode(v.s)
      [] v.t = "int" -> Utf8Encode(IntText(v.n))

\* repr of one byte inside a bytes literal.
ByteRepr(ch) == IF ch \in HighBytes THEN <<"\\", ch>> ELSE <<ch>>

RECURSIVE BytesRepr(_)
BytesRepr(b) == IF b = <<>> THEN <<>> ELSE ByteRepr(Head(b)) \o BytesRepr(Tail(b))

\* repr(v) of an argument.
Repr(v) ==
    CASE v.t = "bytes" -> <<"b", "'">> \o BytesRepr(v.s) \o <<"'">>
      [] v.t = "str" -> <<"'">> \o v.s \o <<"'">>
      [] v.t = "int" -> IntText(v.n)

\* str(args) of the one-argument tuple (data,).
StrArgs(data) == <<"(">> \o Repr(data) \o <<",", ")">>

RECURSIVE DigitsValue(_, _)
\* The number spelled by a sequence of digits, after the digits read so far.
DigitsValue(b, acc) == IF b = <<>> THEN acc
                       ELSE DigitsValue(Tail(b), acc * 10 + DigitVal(Head(b)))

AllDigits(b) == b # <<>> /\ \A i \in 1..Len(b) : IsDigit(b[i])

\* int(d) of bytes: an optional sign and decimal digits, else ValueError.
IntOfBytes(b) ==
    IF b # <<>> /\ Head(b) \in {"-", "+"}
    THEN IF AllDigits(Tail(b))
         THEN Return(PyInt((IF Head(b) = "-" THEN -1 ELSE 1) * DigitsValue(Tail(b), 0)))
         ELSE Raise("ValueError")
    ELSE IF AllDigits(b) THEN Return(PyInt(DigitsValue(b, 0)))
         ELSE Raise("ValueError")

\* d.decode("utf-8") of bytes, else UnicodeDecodeError.
StrOfBytes(b) == IF Utf8Valid(b) THEN Return(PyStr(Utf8Decode(b)))
                 ELSE Raise("UnicodeDecodeError")

\* ------------------------------------------------------------ program
\* The name Cache.store is known by: method.__qualname__.
QualName == "Cache.store"

\* The identifiers uuid.uuid4() can produce, as text: u1, u2, ...
UuidPool == {<<"u">> \o NatText(i) : i \in 1..MaxCalls}

\* The values passed to Cache.store: text, bytes and an int.
Data == {PyStr(<<"eacute">>), PyBytes(<<"xFF">>), PyInt(-7)}

\* The value passed where only the calls' order and number matter.
OneValue == {PyStr(<<"eacute">>)}

\* The converters passed to Cache.get: none, get_str's and get_int's.
Converters == {"none", "str", "int"}

\* The exceptions a Redis round trip raises when the server is unreachable.
RedisErrors == {"ConnectionError"}

\* The urls passed to get_page.
Urls == {"a", "b"}

\* The text of a page, response.text: an empty body or a body with a
\* character outside ASCII.
Bodies == {<<>>, <<"eacute">>}

\* The exceptions requests.get raises when the network fails.
NetworkErrors == {"RequestException"}

\* The lifetime get_page gives a cache entry: setex(cache_key, 10, ...).
Expiry == 10

\* No entry at a key of the page cache.
NoEntry == [val |-> None, ttl |-> 0, age |-> 0]

\* Mutant: the two decorators in the other order.
DecoratorsSwapped == <<"call_history", "count_calls">>

\* The decorators on Cache.store, outermost first.
Decorators == <<"count_calls", "call_history">>

\* What a decorator's wrapper does before and after the method it wraps.
Before(d) == IF d = "count_calls" THEN <<"incr">> ELSE <<"rpush_in">>
After(d) == IF d = "count_calls" THEN <<>> ELSE <<"rpush_out">>

RECURSIVE WrapRecordsFirst(_, _)
\* Mutant: a wrapper that does its recording before it calls the method.
WrapRecordsFirst(ds, body) ==
    IF ds = <<>> THEN body
    ELSE Before(Head(ds)) \o After(Head(ds)) \o WrapRecordsFirst(Tail(ds), body)

RECURSIVE Wrap(_, _)
\* The round trips of the decorated method, in program order.
Wrap(ds, body) == IF ds = <<>> THEN body
                  ELSE Before(Head(ds)) \o Wrap(Tail(ds), body) \o After(Head(ds))

\* The round trips of one Cache.store call.
Steps == Wrap(Decorators, <<"set">>)

VARIABLES
    counter,    \* Redis: the integer at key Cache.store (0: no such key)
    inputs,     \* Redis: the list Cache.store:inputs
    outputs,    \* Redis: the list Cache.store:outputs
    kv,         \* Redis: the value at each identifier, None when absent
    calls,      \* the invocations of Cache.store so far, each a record of
                \*   at:  the index in Steps of its next round trip, 0 once over
                \*   arg: the data argument
                \*   key: the identifier uuid4 gave it
                \*   out: what it returned or raised to its caller
                \*   failedAt: the index in Steps of the round trip that raised
    got,        \* the reader: its get call and the outcome, when that was
                \*   its latest call, with (history) the bytes it read and
                \*   whether a store call had returned its key by then
    rpc,        \* the reader: "idle", or "replay" between replay's two reads
    rin,        \* the reader in replay: the inputs it read
    stdout,     \* the reader: the lines its last replay call printed, when
                \*   it has called nothing but replay since
    inCalls,    \* history: the invocation behind each entry of inputs
    outCalls,   \* history: the invocation behind each entry of outputs
    issued,     \* history: the identifiers uuid4 has produced
    fresh,      \* history: no Redis write since the replay under way began
    quiet,      \* history: the replays (2 for more) the reader has finished in
                \*   a row with no Redis write since the first of them began
    overlapped, \* history: whether two store calls ever ran at once
    count,      \* Redis: the integer at key count:<url> (0: no such key)
    cached,     \* Redis: the entry at key cached:<url>, with the time it has
                \*   left to live and (history) the time since it was written
    pages       \* the invocations of get_page so far, each a record of
                \*   url:  the url argument
                \*   at:   the index in PageSteps of its next step, 0 once over
                \*   read: the bytes its cache lookup returned, None for none
                \*   body: the text the method is to return
                \*   net:  the network fetches it has made
                \*   age:  (history) the time since the bytes it read were written
                \*   out:  what it returned or raised to its caller
                \*   failedAt: the index in PageSteps of the step that raised

redis == <<counter, inputs, outputs, kv>>
reader == <<got, rpc, rin, stdout>>
history == <<inCalls, outCalls, issued, fresh, quiet, overlapped>>
web == <<count, cached, pages>>
vars == <<redis, calls, reader, history, web>>

\* --------------------------------------------------- Redis operations
\* Mutant: the counter written as set(key, 1) instead of incremented.
IncrSetOne(n) == 1

\* Mutant: DECR in place of INCR.
Decr(n) == n - 1

\* INCR: the integer at the key plus one, a missing key counting as 0.
Incr(n) == n + 1

\* Mutant: LPUSH, the element at the head of the list.
LPush(list, v) == <<Encode(v)>> \o list

\* Mutant: a list kept to its latest entry (RPUSH, then LTRIM -1 -1).
RPushTrimmed(list, v) == <<Encode(v)>>

\* RPUSH: the list with the encoded element at its tail.
RPush(list, v) == Append(list, Encode(v))

\* LRANGE key 0 -1: the whole list, head first.
LRange(list) == list

\* SET: the encoded value at the key, whatever was there.
RedisSet(db, k, v) == [db EXCEPT ![k] = PyBytes(Encode(v))]

\* GET: the bytes at the key, None without one.
RedisGet(db, k) == db[k]

\* The database as one record, with no key in it.
EmptyDb == [counter |-> 0, inputs |-> <<>>, outputs |-> <<>>,
            kv |-> [k \in UuidPool |-> None],
            count |-> [u \in Urls |-> 0], cached |-> [u \in Urls |-> NoEntry]]

\* Mutant: a reset that deletes the values and the lists, not the counters.
FlushDbKeepsCounters(db) == [EmptyDb EXCEPT !.counter = db.counter, !.count = db.count]

\* FLUSHDB: every key of the database deleted.
FlushDb(db) == EmptyDb

\* Mutant: an identifier generator that can repeat itself.
Uuid4Repeats == UuidPool

\* uuid.uuid4(): 122 random bits, so an identifier no earlier call was given.
Uuid4 == UuidPool \ issued

\* ------------------------------------------------------------- pure code
\* The converter of get_str (d.decode("utf-8")) or of get_int (int(d)).
Convert(fn, d) == IF fn = "str" THEN StrOfBytes(d.s) ELSE IntOfBytes(d.s)

\* Mutant: fn applied before the test for a missing key.
GetOutcomeUnchecked(d, fn) ==
    IF fn # "none" THEN [out |-> Convert(fn, d), called |-> TRUE]
    ELSE [out |-> Return(d), called |-> FALSE]

\* Mutant: a failing conversion caught and reported as None.
GetOutcomeSwallow(d, fn) ==
    IF d = None THEN [out |-> Return(None), called |-> FALSE]
    ELSE IF fn # "none"
         THEN [out |-> IF Convert(fn, d).kind = "raise" THEN Return(None) ELSE Convert(fn, d),
               called |-> TRUE]
         ELSE [out |-> Return(d), called |-> FALSE]

\* Cache.get after its read: the outcome, and whether fn was applied.
GetOutcome(d, fn) ==
    IF d = None THEN [out |-> Return(None), called |-> FALSE]
    ELSE IF fn # "none" THEN [out |-> Convert(fn, d), called |-> TRUE]
    ELSE [out |-> Return(d), called |-> FALSE]

\* Mutant: a wrapper that catches the exception and returns None.
PropagateSwallowed(e) == Return(None)

\* An exception of the wrapped method passes through a wrapper unchanged:
\* neither wrapper has a try block.
Propagate(e) == Raise(e)

Min(a, b) == IF a < b THEN a ELSE b

\* zip(inputs, outputs): pairs up to the shorter list's length.
Zip(ins, outs) == [i \in 1..Min(Len(ins), Len(outs)) |-> <<ins[i], outs[i]>>]

\* The first line replay prints.
ReplayHeader(ins) == <<QualName, " was called ">> \o NatText(Len(ins)) \o <<" times:">>

\* The line replay prints for one pair; list entries are UTF-8 of text.
ReplayLine(p) == <<QualName, "(*">> \o Utf8Decode(p[1]) \o <<") -> ">> \o Utf8Decode(p[2])

\* Everything one replay call prints.
ReplayLines(ins, outs) ==
    <<ReplayHeader(ins)>> \o [i \in 1..Len(Zip(ins, outs)) |-> ReplayLine(Zip(ins, outs)[i])]

\* ---------------------------------------------------------------- state
NoGet == [key |-> <<>>, fn |-> "none", out |-> Return(None), called |-> FALSE,
          read |-> None, after |-> FALSE]

\* The outcome of a call that is still under way.
Pending == [kind |-> "pending", val |-> None]

Init ==
    /\ counter = 0
    /\ inputs = <<>>
    /\ outputs = <<>>
    /\ kv = [k \in UuidPool |-> None]
    /\ calls = <<>>
    /\ got = NoGet
    /\ rpc = "idle"
    /\ rin = <<>>
    /\ stdout = <<>>
    /\ inCalls = <<>>
    /\ outCalls = <<>>
    /\ issued = {}
    /\ fresh = FALSE
    /\ quiet = 0
    /\ overlapped = FALSE
    /\ count = [u \in Urls |-> 0]
    /\ cached = [u \in Urls |-> NoEntry]
    /\ pages = <<>>

\* The invocations under way.
Running == {n \in 1..Len(calls) : calls[n].at > 0}

\* Whether call n is about to make the round trip named step.
AtStep(n, step) == n \in Running /\ Steps[calls[n].at] = step

\* Whether the round trip call n is about to make is its last.
Last(n) == calls[n].at = Len(Steps)

\* After a round trip of Cache.store: on to the next one, or return the key
\* to the caller.  k is the identifier the call holds after the round trip.
Advance(n, k) ==
    /\ calls' = [calls EXCEPT ![n].at = IF Last(n) THEN 0 ELSE @ + 1,
                              ![n].key = k,
                              ![n].out = IF Last(n) THEN Return(PyStr(k)) ELSE @]
    /\ fresh' = FALSE
    /\ quiet' = 0
    /\ UNCHANGED <<reader, overlapped, web>>

\* A caller calls cache.store(data).
Invoke(data) ==
    /\ Len(calls) < MaxCalls
    /\ calls' = Append(calls, [at |-> 1, arg |-> data, key |-> <<>>,
                               out |-> Pending, failedAt |-> 0])
    /\ overlapped' = (overlapped \/ Running # {})
    /\ UNCHANGED <<redis, reader, inCalls, outCalls, issued, fresh, quiet, web>>

\* count_calls.wrapper: self._redis.incr(key).
CountCall(n) ==
    /\ AtStep(n, "incr")
    /\ counter' = Incr(counter)
    /\ Advance(n, calls[n].key)
    /\ UNCHANGED <<inputs, outputs, kv, inCalls, outCalls, issued>>

\* call_history.wrapper: self._redis.rpush(input_key, str(args)).
RecordInput(n) ==
    /\ AtStep(n, "rpush_in")
    /\ inputs' = RPush(inputs, PyStr(StrArgs(calls[n].arg)))
    /\ inCalls' = Append(inCalls, n)
    /\ Advance(n, calls[n].key)
    /\ UNCHANGED <<counter, outputs, kv, outCalls, issued>>

\* Cache.store: key = str(uuid.uuid4()); self._redis.set(key, data).
StoreValue(n) ==
    /\ AtStep(n, "set")
    /\ \E k \in Uuid4 :
        /\ kv' = RedisSet(kv, k, calls[n].arg)
        /\ issued' = issued \cup {k}
        /\ Advance(n, k)
    /\ UNCHANGED <<counter, inputs, outputs, inCalls, outCalls>>

\* call_history.wrapper: self._redis.rpush(output_key, str(output)).
RecordOutput(n) ==
    /\ AtStep(n, "rpush_out")
    /\ outputs' = RPush(outputs, PyStr(calls[n].key))
    /\ outCalls' = Append(outCalls, n)
    /\ Advance(n, calls[n].key)
    /\ UNCHANGED <<counter, inputs, kv, inCalls, issued>>

\* The round trip a store call is about to make raises: Redis is left as it
\* is and the exception reaches the caller through the wrappers.
StoreRaises(n) ==
    /\ n \in Running
    /\ \E e \in RedisErrors :
        calls' = [calls EXCEPT ![n].at = 0, ![n].out = Propagate(e),
                               ![n].failedAt = calls[n].at]
    /\ UNCHANGED <<redis, reader, history, web>>

\* cache.get(k, fn), and get_str / get_int, which pass their converter.
Get(k, fn) ==
    /\ rpc = "idle"
    /\ got' = [key |-> k, fn |-> fn, out |-> GetOutcome(RedisGet(kv, k), fn).out,
               called |-> GetOutcome(RedisGet(kv, k), fn).called,
               read |-> kv[k],
               after |-> \E n \in 1..Len(calls) :
                            calls[n].out.kind = "return" /\ calls[n].key = k]
    /\ stdout' = <<>>
    /\ quiet' = 0
    /\ UNCHANGED <<redis, calls, rpc, rin, inCalls, outCalls, issued, fresh, overlapped, web>>

\* Mutant: a replay that reads the inputs by popping them off the list.
ReplayReadInputsPop ==
    /\ rpc = "idle"
    /\ rpc' = "replay"
    /\ rin' = LRange(inputs)
    /\ inputs' = <<>>
    /\ fresh' = TRUE
    /\ got' = NoGet
    /\ UNCHANGED <<counter, outputs, kv, calls, stdout, inCalls, outCalls, issued,
                   quiet, overlapped, web>>

\* replay(cache.store): inputs = lrange(f"{method_name}:inputs", 0, -1).
ReplayReadInputs ==
    /\ rpc = "idle"
    /\ rpc' = "replay"
    /\ rin' = LRange(inputs)
    /\ fresh' = TRUE
    /\ got' = NoGet
    /\ UNCHANGED <<redis, calls, stdout, inCalls, outCalls, issued, quiet, overlapped,
                   web>>

\* replay(cache.store): outputs = lrange(...:outputs, 0, -1) and the prints.
ReplayPrint ==
    /\ rpc = "replay"
    /\ stdout' = ReplayLines(rin, LRange(outputs))
    /\ rpc' = "idle"
    /\ rin' = <<>>
    /\ quiet' = IF fresh THEN Min(quiet + 1, 2) ELSE 0
    /\ fresh' = FALSE
    /\ UNCHANGED <<redis, calls, got, inCalls, outCalls, issued, overlapped, web>>

\* The database as it is, as one record.
Db == [counter |-> counter, inputs |-> inputs, outputs |-> outputs, kv |-> kv,
       count |-> count, cached |-> cached]

\* Cache(): self._redis = redis.Redis(); self._redis.flushdb().  The client
\* is of the one database every caller and get_page use; the store calls
\* under way go on.
NewCache ==
    /\ counter' = FlushDb(Db).counter
    /\ inputs' = FlushDb(Db).inputs
    /\ outputs' = FlushDb(Db).outputs
    /\ kv' = FlushDb(Db).kv
    /\ count' = FlushDb(Db).count
    /\ cached' = FlushDb(Db).cached
    /\ inCalls' = SubSeq(inCalls, 1, Len(inputs'))
    /\ outCalls' = SubSeq(outCalls, 1, Len(outputs'))
    /\ fresh' = FALSE
    /\ quiet' = 0
    /\ UNCHANGED <<calls, reader, issued, overlapped, pages>>

\* A caller calls cache.store(data) while no other call is under way.
InvokeAlone(data) == Running = {} /\ Invoke(data)

\* The round trips of the calls under way.
RoundTrip ==
    \/ \E n \in 1..Len(calls) : CountCall(n)
    \/ \E n \in 1..Len(calls) : RecordInput(n)
    \/ \E n \in 1..Len(calls) : StoreValue(n)
    \/ \E n \in 1..Len(calls) : RecordOutput(n)
    \/ \E n \in 1..Len(calls) : StoreRaises(n)

\* The calls of the reader.
Read ==
    \/ \E k \in UuidPool, fn \in Converters : Get(k, fn)
    \/ ReplayReadInputs
    \/ ReplayPrint

\* Callers that store at any time, whatever the others are doing.
Next ==
    \/ \E data \in OneValue : Invoke(data)
    \/ RoundTrip
    \/ Read

Spec == Init /\ [][Next]_vars

\* Callers that store one after another, all kinds of values.
NextSeq ==
    \/ \E data \in Data : InvokeAlone(data)
    \/ RoundTrip
    \/ Read

SpecSeq == Init /\ [][NextSeq]_vars

\* Callers that store one after another and construct a Cache of their own
\* at any time, also while a store call is under way.
NextInit ==
    \/ \E data \in OneValue : InvokeAlone(data)
    \/ RoundTrip
    \/ Read
    \/ NewCache

SpecInit == Init /\ [][NextInit]_vars

\* ------------------------------------------------------------- web.py
\* The state of exercise.py's Cache and of its callers.
exercise == <<redis, calls, reader, history>>

\* Mutant: the counter key without the url in it.
CountKeyFixed(url) == "a"

\* key = f"count:{url}": the counter of a url, named by the url.
CountKey(url) == url

\* cache_key = f"cached:{url}": the cache entry of a url, named by the url.
CacheKey(url) == url

\* get_page itself: the cache lookup, the network fetch, the cache write.
PageBody == <<"get", "fetch", "setex">>

\* Mutant: a wrapper that counts the request after the method returned.
PageStepsCountLast == PageBody \o <<"incr">>

\* The steps of one get_page call through count_requests.wrapper.
PageSteps == <<"incr">> \o PageBody

\* The step after which get_page itself has returned.
BodyEnd == CHOOSE i \in 1..Len(PageSteps) : PageSteps[i] = "setex"

\* Mutant: SET, an entry that never expires.
SetPersist(db, k, ttl, v) ==
    [db EXCEPT ![k] = [val |-> PyBytes(Encode(v)), ttl |-> 0, age |-> 0]]

\* SETEX: the encoded value at the key with ttl time units to live.
SetEx(db, k, ttl, v) ==
    [db EXCEPT ![k] = [val |-> PyBytes(Encode(v)), ttl |-> ttl, age |-> 0]]

\* GET of a key that expires: its bytes while it lives, None without it.
GetLive(db, k) == db[k].val

\* Mutant: an expiry that is not enforced.
ElapseStale(e) ==
    IF e.val = None THEN e ELSE [e EXCEPT !.age = Min(@ + 1, Expiry + 1)]

\* One time unit on an entry: Redis deletes it when its time to live is up.
ElapseOne(e) ==
    IF e.val = None THEN e
    ELSE IF e.ttl = 1 THEN NoEntry
    ELSE [e EXCEPT !.ttl = IF @ > 1 THEN @ - 1 ELSE @, !.age = Min(@ + 1, Expiry + 1)]

\* if cached_content: bytes that are there and not empty.
Truthy(d) == d # None /\ d.s # <<>>

\* The invocations of get_page under way.
PageRunning == {n \in 1..Len(pages) : pages[n].at > 0}

\* Whether get_page call n is about to make the step named step.
PageAt(n, step) == n \in PageRunning /\ PageSteps[pages[n].at] = step

\* Call p goes on to step i or, past the last step, returns its text.
Continue(p, i) ==
    IF i > Len(PageSteps) THEN [p EXCEPT !.at = 0, !.out = Return(PyStr(p.body))]
    ELSE [p EXCEPT !.at = i]

\* return cached_content.decode('utf-8'): the method returns the text, or
\* the call raises.
ReturnCached(p, d) ==
    IF StrOfBytes(d.s).kind = "return"
    THEN Continue([p EXCEPT !.body = StrOfBytes(d.s).val.s], BodyEnd + 1)
    ELSE [p EXCEPT !.at = 0, !.out = StrOfBytes(d.s), !.failedAt = p.at]

\* A caller calls get_page(url).
InvokePage(url) ==
    /\ Len(pages) < MaxFetches
    /\ pages' = Append(pages, [url |-> url, at |-> 1, read |-> None, body |-> <<>>,
                               net |-> 0, age |-> 0, out |-> Pending, failedAt |-> 0])
    /\ UNCHANGED <<exercise, count, cached>>

\* count_requests.wrapper: _redis.incr(key).
CountRequest(n) ==
    /\ PageAt(n, "incr")
    /\ count' = [count EXCEPT ![CountKey(pages[n].url)] = Incr(@)]
    /\ pages' = [pages EXCEPT ![n] = Continue(@, @.at + 1)]
    /\ UNCHANGED <<exercise, cached>>

\* get_page: cached_content = _redis.get(cache_key), and on a hit the return.
LookUp(n) ==
    /\ PageAt(n, "get")
    /\ LET e == cached[CacheKey(pages[n].url)]
           d == GetLive(cached, CacheKey(pages[n].url))
       IN pages' = [pages EXCEPT ![n] =
                       IF Truthy(d)
                       THEN ReturnCached([@ EXCEPT !.read = d, !.age = e.age], d)
                       ELSE Continue([@ EXCEPT !.read = d, !.age = e.age], @.at + 1)]
    /\ UNCHANGED <<exercise, count, cached>>

\* get_page: response = requests.get(url); html_content = response.text.
Fetch(n) ==
    /\ PageAt(n, "fetch")
    /\ \E b \in Bodies :
        pages' = [pages EXCEPT ![n] = Continue([@ EXCEPT !.body = b, !.net = @ + 1],
                                               @.at + 1)]
    /\ UNCHANGED <<exercise, count, cached>>

\* get_page: _redis.setex(cache_key, 10, html_content), and the return.
CachePage(n) ==
    /\ PageAt(n, "setex")
    /\ cached' = SetEx(cached, CacheKey(pages[n].url), Expiry, PyStr(pages[n].body))
    /\ pages' = [pages EXCEPT ![n] = Continue(@, @.at + 1)]
    /\ UNCHANGED <<exercise, count>>

\* The step a get_page call is about to make raises, the network at the
\* fetch and Redis elsewhere: nothing is written and the exception reaches
\* the caller through the wrapper.
PageRaises(n) ==
    /\ n \in PageRunning
    /\ \E e \in (IF PageSteps[pages[n].at] = "fetch" THEN NetworkErrors ELSE RedisErrors) :
        pages' = [pages EXCEPT ![n].at = 0, ![n].out = Propagate(e),
                               ![n].failedAt = pages[n].at]
    /\ UNCHANGED <<exercise, count, cached>>

\* One time unit passes.
Tick ==
    /\ cached' = [u \in Urls |-> ElapseOne(cached[u])]
    /\ UNCHANGED <<exercise, count, pages>>

\* The steps of the get_page calls under way.
PageStep ==
    \/ \E n \in 1..Len(pages) : CountRequest(n)
    \/ \E n \in 1..Len(pages) : LookUp(n)
    \/ \E n \in 1..Len(pages) : Fetch(n)
    \/ \E n \in 1..Len(pages) : CachePage(n)
    \/ \E n \in 1..Len(pages) : PageRaises(n)

\* Callers that fetch pages at any time, while time passes.
NextWeb ==
    \/ \E url \in Urls : InvokePage(url)
    \/ PageStep
    \/ Tick

SpecWeb == Init /\ [][NextWeb]_vars

\* Time goes on: an entry with time to live does not keep it for ever.
SpecWebFair == SpecWeb /\ WF_vars(Tick)

\* --------------------------------------------------------------- claims
Returned(n) == calls[n].out.kind = "return"
Raised(n) == calls[n].out.kind = "raise"
AllCalls == 1..Len(calls)

\* The place of the increment among a call's round trips.
IncrIndex == CHOOSE i \in 1..Len(Steps) : Steps[i] = "incr"

\* The invocations that have performed their increment: those past it, those
\* that returned, and those that raised after it.
Counted == {n \in AllCalls : \/ calls[n].at > IncrIndex
                             \/ Returned(n)
                             \/ Raised(n) /\ calls[n].failedAt > IncrIndex}

\* C1: the counter at Cache.store equals the number of invocations that have
\* performed their increment, whatever the interleaving of the callers and
\* of the reader's get and replay calls; so once all N invocations have
\* incremented it, it is N.
C1_CounterExact == counter = Cardinality(Counted)

C1_Witness ==
    /\ Len(calls) = MaxCalls /\ Counted = AllCalls /\ counter = MaxCalls
    /\ overlapped /\ Running # {} /\ stdout # <<>>

\* C2: the inputs and outputs lists have the same length and are aligned,
\* the k-th output being the result of the call behind the k-th input.  Stated
\* for the states where no store call is under way, the least the claim asks.
C2_HistoryAligned ==
    Running = {} => Len(inputs) = Len(outputs) /\ inCalls = outCalls

\* C3: when every call has completed successfully, the k-th output is the
\* identifier returned by the call that appended the k-th input, though the
\* calls overlapped.
C3_OrderMatches ==
    (Running = {} /\ \A n \in AllCalls : Returned(n)) => inCalls = outCalls

\* C4 as claimed: get(store(v)) == v for every value v, with no converter.
C4_RoundTripIdentity ==
    \A n \in AllCalls :
        (got.after /\ got.fn = "none" /\ Returned(n) /\ calls[n].key = got.key)
            => got.out = Return(calls[n].arg)

\* C4 as amended: get(store(v)) is v for a bytes value and the bytes Redis
\* encoded v to otherwise, from which get_str gives back a text v and get_int
\* an int v; no two calls are given the same identifier, so no store
\* overwrites the value of an earlier one and this holds after further calls.
C4_RoundTripBytes ==
    /\ \A n \in AllCalls :
        (got.after /\ Returned(n) /\ calls[n].key = got.key) =>
            /\ got.fn = "none" => got.out.kind = "return" /\ got.out.val.t = "bytes"
            /\ (got.fn = "none" /\ calls[n].arg.t = "bytes") => got.out = Return(calls[n].arg)
            /\ (got.fn = "str" /\ calls[n].arg.t = "str") => got.out = Return(calls[n].arg)
            /\ (got.fn = "int" /\ calls[n].arg.t = "int") => got.out = Return(calls[n].arg)
    /\ \A m, n \in AllCalls :
        (m # n /\ calls[m].key # <<>> /\ calls[n].key # <<>>) => calls[m].key # calls[n].key

C4_Witness ==
    /\ \E n \in AllCalls : /\ Returned(n) /\ calls[n].key = got.key /\ calls[n].arg.t = "str"
                           /\ n < Len(calls)
                           /\ got.after /\ got.fn = "str" /\ got.out = Return(calls[n].arg)
    /\ \A n \in AllCalls : Returned(n)
    /\ Len(calls) = MaxCalls

\* C5: when a round trip inside the method the counter wraps raises, the
\* counter keeps the one increment of that call (no rollback, no second
\* increment) and the caller gets that exception.
C5_FailureCounted ==
    [][\A n \in AllCalls :
         (calls[n].at > IncrIndex /\ StoreRaises(n)) =>
             /\ counter' = counter
             /\ n \in Counted'
             /\ counter' = Cardinality(Counted')
             /\ \E e \in RedisErrors : calls'[n].out = Raise(e)]_vars

C5_Witness ==
    \E n \in AllCalls : /\ Raised(n) /\ Steps[calls[n].failedAt] = "set"
                        /\ counter = Len(calls) /\ Len(calls) = MaxCalls

ExpectedLines ==
    <<<<QualName, " was called ">> \o NatText(Len(calls)) \o <<" times:">>>>
        \o [n \in AllCalls |-> <<QualName, "(*">> \o StrArgs(calls[n].arg)
                                   \o <<") -> ">> \o calls[n].key]

\* C7: after N consecutive successful store calls, both lists have length N
\* and a replay prints the count N, then the N pairs in call order.
C7_ReplayRenders ==
    (rpc = "idle" /\ stdout # <<>> /\ quiet >= 1 /\ ~overlapped
        /\ Running = {} /\ \A n \in AllCalls : Returned(n))
    => /\ Len(LRange(inputs)) = Len(calls)
       /\ Len(LRange(outputs)) = Len(calls)
       /\ stdout = ExpectedLines

C7_Witness ==
    /\ rpc = "idle" /\ quiet >= 1 /\ Len(stdout) = MaxCalls + 1
    /\ Len(calls) = MaxCalls /\ \A n \in AllCalls : Returned(n)
    /\ \E n \in AllCalls : calls[n].arg.t = "bytes"

NotNumeric(b) == \E i \in 1..Len(b) : b[i] \notin {"-", "+", "0", "1", "2", "3", "4", "5", "6", "7", "8", "9"}
\* Bytes decode("utf-8") rejects: the byte FF is in no UTF-8 text.
NotUtf8(b) == \E i \in 1..Len(b) : b[i] = "xFF"

\* C9: when the value exists and the converter fails on its bytes, get
\* raises the converter's exception; it does not return None.
C9_ConversionErrorRaised ==
    /\ (got.fn = "int" /\ got.read # None /\ NotNumeric(got.read.s))
           => got.out = Raise("ValueError") /\ got.out # Return(None)
    /\ (got.fn = "str" /\ got.read # None /\ NotUtf8(got.read.s))
           => got.out = Raise("UnicodeDecodeError") /\ got.out # Return(None)

C9_Witness ==
    /\ got.key \in issued /\ got.read = PyBytes(<<"xFF">>)
    /\ got.fn = "str" /\ got.out = Raise("UnicodeDecodeError")

\* C10: a replay step leaves the counter, both lists and every value as they
\* are, and a replay that follows another with no Redis write since that one
\* began prints the same lines.
C10_ReplayReadOnly ==
    [][/\ rpc' # rpc => UNCHANGED redis
       /\ (rpc = "replay" /\ rpc' = "idle" /\ stdout # <<>> /\ quiet >= 1)
              => stdout' = stdout]_vars

C10_Witness == rpc = "idle" /\ quiet = 2 /\ Len(stdout) = MaxCalls + 1

\* The lines a replay prints for the lists it read: the summary line and the
\* lines of the aligned pairs.
RenderedLines(ins, outs) ==
    {ReplayHeader(ins)} \cup {ReplayLine(Zip(ins, outs)[i]) : i \in 1..Len(Zip(ins, outs))}

\* C11: when the lists replay read differ in length, replay does not fail,
\* prints the first min(len(inputs), len(outputs)) pairs in order, and
\* reports the mismatch: it puts out a line that is neither the summary line
\* nor the line of a pair.
C11_MismatchReported ==
    [][(rpc = "replay" /\ rpc' = "idle" /\ Len(rin) # Len(LRange(outputs))) =>
          /\ \A i \in 1..Min(Len(rin), Len(outputs)) :
                 stdout'[i + 1] = ReplayLine(<<rin[i], outputs[i]>>)
          /\ \E w \in 1..Len(stdout') : stdout'[w] \notin RenderedLines(rin, LRange(outputs))]_vars

\* Whether sequence s is a prefix of sequence t.
IsPrefix(s, t) == Len(s) <= Len(t) /\ SubSeq(t, 1, Len(s)) = s

\* The place of the input's append among a call's round trips.
InputIndex == CHOOSE i \in 1..Len(Steps) : Steps[i] = "rpush_in"

\* The invocations that have appended their input.
Recorded == {n \in AllCalls : \/ calls[n].at > InputIndex
                              \/ Returned(n)
                              \/ Raised(n) /\ calls[n].failedAt > InputIndex}

\* C12 as claimed: no step of the system, the construction of a Cache
\* included, lowers the counter.
C12_CounterMonotonic == [][counter' >= counter]_vars

\* C12 as amended: no step of store, get or replay lowers the counter; the
\* construction of a Cache deletes it, which puts it back at zero.
C12_CounterMonotonicUntilInit ==
    [][IF NewCache THEN counter' = 0 ELSE counter' >= counter]_vars

C12_Witness == counter = 1 /\ Cardinality(Counted) = MaxCalls /\ MaxCalls > 1

\* C13 as claimed: across every step of the system, the construction of a
\* Cache included, the inputs list and the outputs list of before are
\* prefixes of those of after.
C13_AppendOnly == [][IsPrefix(inputs, inputs') /\ IsPrefix(outputs, outputs')]_vars

\* C13 as amended: that holds across every step of store, get and replay;
\* the construction of a Cache leaves both lists empty.
C13_AppendOnlyUntilInit ==
    [][IF NewCache THEN inputs' = <<>> /\ outputs' = <<>>
       ELSE IsPrefix(inputs, inputs') /\ IsPrefix(outputs, outputs')]_vars

C13_Witness ==
    /\ Len(inputs) = 1 /\ Len(outputs) = 1 /\ inCalls = <<MaxCalls>>
    /\ Cardinality(Recorded) = MaxCalls /\ MaxCalls > 1

\* C14: right after the construction of a Cache every identifier reads as
\* absent, with or without a converter, a replay prints a count of 0 and no
\* pair, and the next increment of the counter gives 1, whoever wrote what
\* was there.
C14_InitClears ==
    [][NewCache =>
        /\ \A k \in UuidPool, fn \in Converters :
               GetOutcome(RedisGet(kv', k), fn).out = Return(None)
        /\ ReplayLines(LRange(inputs'), LRange(outputs')) = <<ReplayHeader(<<>>)>>
        /\ Incr(counter') = 1]_vars

C14_Witness ==
    /\ counter = 0 /\ inputs = <<>> /\ outputs = <<>> /\ \A k \in UuidPool : kv[k] = None
    /\ Running # {}
    /\ \E n \in AllCalls : Returned(n)

\* The identifiers that hold a value.
Stored == {k \in UuidPool : kv[k] # None}

\* C18: with no Cache constructed after the first, in every state, whatever
\* the interleaving of the callers and wherever a call failed: there are at
\* most as many outputs as stored values and at most as many stored values as
\* inputs, and every entry of the outputs list is an identifier that holds a
\* value.
C18_PartialOrder ==
    /\ Len(outputs) <= Cardinality(Stored)
    /\ Cardinality(Stored) <= Len(inputs)
    /\ \A i \in 1..Len(outputs) : Utf8Decode(outputs[i]) \in Stored

C18_Witness ==
    /\ Len(outputs) = 1 /\ Cardinality(Stored) = 1 /\ Len(inputs) = 2
    /\ overlapped
    /\ \E n \in AllCalls : Raised(n) /\ Steps[calls[n].failedAt] = "set"

AllPages == 1..Len(pages)
PageReturned(n) == pages[n].out.kind = "return"
PageRaised(n) == pages[n].out.kind = "raise"

\* The places of the increment and of the cache lookup among a call's steps.
PageIncrIndex == CHOOSE i \in 1..Len(PageSteps) : PageSteps[i] = "incr"
LookUpIndex == CHOOSE i \in 1..Len(PageSteps) : PageSteps[i] = "get"

\* The get_page calls that have made step i.
PagePast(i) == {n \in AllPages : \/ pages[n].at > i
                                 \/ PageReturned(n)
                                 \/ PageRaised(n) /\ pages[n].failedAt > i}

\* C15: the access counter of each url is the number of get_page calls for
\* that url that have made their increment, hits and misses alike, and every
\* call that has looked the cache up has made its increment before; so after
\* k fetches of one url its counter is k and the other counters are as they
\* were.
C15_CountsEveryFetch ==
    /\ \A u \in Urls :
           count[u] = Cardinality({n \in PagePast(PageIncrIndex) : pages[n].url = u})
    /\ PagePast(LookUpIndex) \subseteq PagePast(PageIncrIndex)

C15_Witness ==
    /\ count["a"] = MaxFetches /\ count["b"] = 0
    /\ \A n \in AllPages : PageReturned(n)
    /\ \E n \in AllPages : pages[n].net = 0
    /\ \E n \in AllPages : pages[n].net = 1

\* C16: a get_page call that found a live entry, whatever its content,
\* returns that content and makes no network fetch; a call that found none
\* makes exactly one network fetch and returns what it fetched.
C16_HitSkipsNetwork ==
    \A n \in AllPages :
        PageReturned(n) =>
            IF pages[n].read # None
            THEN pages[n].net = 0 /\ pages[n].out = Return(PyStr(Utf8Decode(pages[n].read.s)))
            ELSE pages[n].net = 1 /\ pages[n].out = Return(PyStr(pages[n].body))

\* C17: a url is uncached, or cached with 1 to 10 time units to live that
\* shrink as time passes; a fetch that found the url uncached and returns
\* has made a network call and leaves it cached with 10 units to live; and a
\* cached url becomes uncached in time, with no step of the program.
C17_TwoStates ==
    /\ [](\A u \in Urls :
             \/ cached[u] = NoEntry
             \/ cached[u].ttl \in 1..Expiry /\ cached[u].age = Expiry - cached[u].ttl)
    /\ [][\A n \in AllPages :
             (pages[n].at > 0 /\ pages'[n].at = 0 /\ pages'[n].out.kind = "return"
                  /\ pages'[n].read = None)
             => /\ pages'[n].net = 1
                /\ cached'[pages[n].url].val # None
                /\ cached'[pages[n].url].ttl = Expiry]_vars
    /\ \A u \in Urls : (cached[u] # NoEntry) ~> (cached[u] = NoEntry)

C17_Witness ==
    /\ \A u \in Urls : cached[u] = NoEntry
    /\ Len(pages) = MaxFetches
    /\ \A n \in AllPages : /\ PageReturned(n) /\ pages[n].net = 1 /\ pages[n].url = "a"
                           /\ pages[n].read = None

\* C19: when the network fetch of a get_page call raises, the caller gets
\* that exception, no cache entry is written or changed, so that a url that
\* was uncached stays so, and the counter keeps the one increment of the call.
C19_FetchFailure ==
    [][\A n \in AllPages :
          (pages[n].at > 0 /\ pages'[n].at = 0 /\ PageSteps[pages[n].at] = "fetch"
               /\ pages'[n].out.kind = "raise")
          => /\ \E e \in NetworkErrors : pages'[n].out = Raise(e)
             /\ cached' = cached
             /\ count' = count
             /\ n \in PagePast(PageIncrIndex)'
             /\ count'[pages[n].url]
                    = Cardinality({m \in PagePast(PageIncrIndex)' : pages[m].url = pages[n].url})]_vars

C19_Witness ==
    /\ Len(pages) = MaxFetches
    /\ PageRaised(1) /\ PageSteps[pages[1].failedAt] = "fetch"
    /\ \A n \in AllPages : pages[n].url = "a" /\ pages[n].read = None
    /\ PageReturned(MaxFetches) /\ pages[MaxFetches].net = 1
    /\ count["a"] = MaxFetches

\* C20: a cache lookup leaves every entry and its time to live as they are,
\* a hit included; so what a get_page call returns is content it read from an
\* entry written at most 10 time units before, or content it fetched itself.
C20_HitKeepsExpiry ==
    [][/\ \A n \in AllPages :
             (pages[n].at = LookUpIndex /\ pages'[n].at # LookUpIndex) => cached' = cached
       /\ \A n \in AllPages :
             (pages[n].at > 0 /\ pages'[n].at = 0 /\ pages'[n].out.kind = "return") =>
                 IF pages'[n].net = 0
                 THEN /\ pages'[n].read # None
                      /\ pages'[n].age <= Expiry
                      /\ pages'[n].out = Return(PyStr(Utf8Decode(pages'[n].read.s)))
                 ELSE pages'[n].out = Return(PyStr(pages'[n].body))]_vars

C20_Witness ==
    \E n \in AllPages : /\ PageReturned(n) /\ pages[n].net = 0
                        /\ pages[n].age = Expiry - 1
                        /\ cached[pages[n].url].ttl = 1
====
